---- MODULE Spec2Model ----
(***************************************************************************)
(* The vote-submission pipeline of modules/accounts.js (shared.addDelegates *)
(* with Accounts.prototype.getAccount / setAccountAndGet), as a state       *)
(* machine: requests arrive at the router, are validated, derive a keypair, *)
(* are admitted to library.balancesSequence, resolve accounts in the        *)
(* account store, build a vote transaction and hand it to the pool.         *)
(***************************************************************************)
EXTENDS Integers, Sequences, FiniteSets, TLC

\* ------------------------------------------------------------------ bounds

\* Number of vote requests that may be in the system in one behaviour.
MaxRequests == 2

Requests == 1..MaxRequests

\* ------------------------------------------------------------- JS values

\* null / undefined of a string-valued field.
NULL == "null"

\* JS truthiness of a string-or-null value ("" is falsy as well).
Truthy(s) == s # NULL /\ s # ""

\* null / undefined of an array-valued field, and an array value.
JsNull == [type |-> "null"]

JsArray(items) == [type |-> "array", items |-> items]

\* JS truthiness of an array-or-null value: every array, [] included, is truthy.
TruthyArray(a) == a.type # "null"

\* Array.prototype.indexOf(x) < 0 on an array value.
IndexOfNegative(a, x) == \A i \in 1..Len(a.items) : a.items[i] # x

\* ------------------------------------------------------------- key material

\* Public keys as Buffers (raw bytes).
Buffers == {"k1", "k2", "k9"}

\* crypto.createHash('sha256').update(secret).digest() then library.ed.makeKeypair:
\* a deterministic keypair per passphrase.
MakeKeypair(secret) ==
  [publicKey |-> CASE secret = "s1" -> "k1"
                   [] secret = "s2" -> "k2"
                   [] OTHER -> "k9"]

\* Buffer.toString('hex'): always lower-case hex.
ToHex(buffer) ==
  CASE buffer = "k1" -> "a1"
    [] buffer = "k2" -> "a2"
    [] OTHER -> "a9"

\* new Buffer(str, 'hex'): hex decoding ignores the case of the digits.
HexDecode(hex) ==
  CASE hex \in {"a1", "A1"} -> "k1"
    [] hex \in {"a2", "A2"} -> "k2"
    [] OTHER -> "k9"

\* Accounts.prototype.generateAddressByPublicKey: arkjs.crypto.getAddress takes
\* the key as hex string or as Buffer and hashes its bytes.
generateAddressByPublicKey(publicKey) ==
  LET bytes == IF publicKey \in Buffers THEN publicKey ELSE HexDecode(publicKey)
  IN  CASE bytes = "k1" -> "addr1"
        [] bytes = "k2" -> "addr2"
        [] OTHER -> "addr9"

\* ------------------------------------------------------------- the account store

Account(address, publicKey, secondSignature, multisignatures) ==
  [address |-> address, publicKey |-> publicKey,
   secondSignature |-> secondSignature, multisignatures |-> multisignatures]

\* library.logic.account.get({address}): the record stored at the address, if any
\* (a set with no or one element).
AccountGet(st, address) == {a \in st : a.address = address}

\* library.logic.account.set(address, data): insert-or-update of the given fields.
AccountSet(st, address, data) ==
  IF AccountGet(st, address) = {}
    THEN st \cup {Account(address, data.publicKey, FALSE, JsNull)}
    ELSE {IF a.address = address THEN [a EXCEPT !.publicKey = data.publicKey] ELSE a
            : a \in st}

\* The multisignatures values an account record may hold.
MultisigValues ==
  {JsNull, JsArray(<<>>), JsArray(<<"a1">>), JsArray(<<"a2">>)}

\* The records that may be stored at an address: none, an account that never
\* signed (no public key, no second signature, no multisignatures) or an account
\* with its own public key.
RecordsAt(address, hex) ==
  {{}} \cup {{Account(address, NULL, FALSE, JsNull)}}
       \cup {{Account(address, hex, s, m)} : s \in BOOLEAN, m \in MultisigValues}

Stores == {r1 \cup r2 : r1 \in RecordsAt("addr1", "a1"), r2 \in RecordsAt("addr2", "a2")}

\* The stores of the concurrent workload.
SmallStores ==
  {r1 \cup r2 :
     r1 \in {{}, {Account("addr1", "a1", FALSE, JsNull)}},
     r2 \in {{}, {Account("addr2", "a2", FALSE, JsArray(<<"a1">>))}}}

\* ------------------------------------------------------------- getAccount

Filter(address, publicKey) == [address |-> address, publicKey |-> publicKey]

\* library.logic.account.get(filter): the record that matches every field of the
\* filter, if any.
AccountGetFilter(st, filter) ==
  {a \in st : /\ filter.address # NULL => a.address = filter.address
              /\ filter.publicKey # NULL => a.publicKey = filter.publicKey}

\* getAccountFilter without `delete filter.publicKey`.
getAccountFilterKeepsKey(filter) ==
  IF filter.publicKey # NULL /\ filter.publicKey # ""
    THEN Filter(generateAddressByPublicKey(filter.publicKey), filter.publicKey)
    ELSE filter

\* Accounts.prototype.getAccount, the filter it hands to library.logic.account.get:
\* if (filter.publicKey) { filter.address = ...; delete filter.publicKey; }
getAccountFilter(filter) ==
  IF filter.publicKey # NULL /\ filter.publicKey # ""
    THEN Filter(generateAddressByPublicKey(filter.publicKey), NULL)
    ELSE filter

\* Accounts.prototype.getAccount(filter, cb): what the callback receives.
getAccount(st, filter) == AccountGetFilter(st, getAccountFilter(filter))

\* ------------------------------------------------------------- requests

Body(secret, secondSecret, publicKey, multisig, delegates) ==
  [secret |-> secret, secondSecret |-> secondSecret, publicKey |-> publicKey,
   multisigAccountPublicKey |-> multisig, delegates |-> delegates]

NoBody == Body(NULL, NULL, NULL, NULL, NULL)

\* A body the schema rejects (secret is required and not empty).
InvalidBody == Body("", NULL, NULL, NULL, "ok")

Bodies ==
  {Body(s, t, p, m, d) :
     s \in {"s1", "s2"}, t \in {NULL, "t1"}, p \in {NULL, "a1", "A1"},
     m \in {NULL, "A1", "a2"}, d \in {"ok", "malformed"}}
  \cup {InvalidBody}

\* The bodies of the concurrent workload.
SmallBodies ==
  {Body(s, NULL, NULL, m, d) :
     s \in {"s1", "s2"}, m \in {NULL, "a2"}, d \in {"ok", "malformed"}}

\* library.schema.validate(req.body, schema.addDelegates): the error list, here
\* its first message, or NULL.
SchemaValidate(body) == IF Truthy(body.secret) THEN NULL ELSE "Missing required property: secret"

\* ------------------------------------------------------------- transactions

NoTx == [type |-> "none"]

NoAccount == {}

\* library.logic.transaction.create(data): throws on a malformed vote list.
CreateThrows(data) == data.votes = "malformed"

\* CreateError of a catch block that calls cb without the exception.
CreateErrorSwallowed == NULL

\* e.toString() of the exception create throws.
CreateError == "Error: Invalid vote list"

\* library.logic.transaction.create(data) when it returns: the transaction built
\* from the data handed to it.
Create(data) ==
  [type |-> data.type, votes |-> data.votes, sender |-> data.sender,
   keypair |-> data.keypair, secondKeypair |-> data.secondKeypair,
   requester |-> data.requester]

\* The keypair value of "no keypair" (secondKeypair: null, no requester).
NoKeypair == [publicKey |-> NULL]

\* ------------------------------------------------------------- shared.addDelegates

\* The element of a lookup result that found a record.
The(found) == CHOOSE a \in found : TRUE

\* PublicKeyMismatch comparing the decoded bytes instead of the hex strings.
PublicKeyMismatchDecoded(body, keypair) ==
  Truthy(body.publicKey) /\ HexDecode(body.publicKey) # keypair.publicKey

\* if (req.body.publicKey) { if (keypair.publicKey.toString('hex') !== req.body.publicKey)
PublicKeyMismatch(body, keypair) ==
  Truthy(body.publicKey) /\ ToHex(keypair.publicKey) # body.publicKey

\* The condition that selects the multisignature branch of the worker.
IsDelegated(body, keypair) ==
  /\ Truthy(body.multisigAccountPublicKey)
  /\ body.multisigAccountPublicKey # ToHex(keypair.publicKey)

\* !account || !account.publicKey
NotFound(found) == found = {} \/ ~Truthy(The(found).publicKey)

\* TargetError without the membership check.
TargetErrorNoMembership(keypair, err, found) ==
  IF err # NULL THEN err
  ELSE IF NotFound(found) THEN "Multisignature account not found"
  ELSE IF ~TruthyArray(The(found).multisignatures) \/ ~TruthyArray(The(found).multisignatures)
    THEN "Account does not have multisignatures enabled"
  ELSE NULL

\* The checks of the callback of the lookup of the multisignature account:
\* the error handed to the worker's cb, or NULL to go on.
TargetError(keypair, err, found) ==
  IF err # NULL THEN err
  ELSE IF NotFound(found) THEN "Multisignature account not found"
  ELSE IF ~TruthyArray(The(found).multisignatures) \/ ~TruthyArray(The(found).multisignatures)
    THEN "Account does not have multisignatures enabled"
  ELSE IF IndexOfNegative(The(found).multisignatures, ToHex(keypair.publicKey))
    THEN "Account does not belong to multisignature group"
  ELSE NULL

\* RequesterError comparing the requester's key with the key the request names
\* instead of the key of the account found.
RequesterErrorNamedKey(body, err, found, account) ==
  IF err # NULL THEN err
  ELSE IF NotFound(found) THEN "Requester not found"
  ELSE IF The(found).secondSignature /\ ~Truthy(body.secondSecret)
    THEN "Missing requester second passphrase"
  ELSE IF The(found).publicKey = body.multisigAccountPublicKey
    THEN "Invalid requester public key"
  ELSE NULL

\* RequesterError that compares the keys before it asks for the second passphrase.
RequesterErrorEqualityFirst(body, err, found, account) ==
  IF err # NULL THEN err
  ELSE IF NotFound(found) THEN "Requester not found"
  ELSE IF The(found).publicKey = The(account).publicKey
    THEN "Invalid requester public key"
  ELSE IF The(found).secondSignature /\ ~Truthy(body.secondSecret)
    THEN "Missing requester second passphrase"
  ELSE NULL

\* The checks of the callback of the lookup of the requester.
RequesterError(body, err, found, account) ==
  IF err # NULL THEN err
  ELSE IF NotFound(found) THEN "Requester not found"
  ELSE IF The(found).secondSignature /\ ~Truthy(body.secondSecret)
    THEN "Missing requester second passphrase"
  ELSE IF The(found).publicKey = The(account).publicKey
    THEN "Invalid requester public key"
  ELSE NULL

\* DirectError that tests the first passphrase where the second is meant.
DirectErrorWrongSecret(body, err, found) ==
  IF err # NULL THEN err
  ELSE IF NotFound(found) THEN "Account not found"
  ELSE IF The(found).secondSignature /\ ~Truthy(body.secret)
    THEN "Invalid second passphrase"
  ELSE NULL

\* DirectError without the check of the second passphrase.
DirectErrorNoSecondCheck(body, err, found) ==
  IF err # NULL THEN err
  ELSE IF NotFound(found) THEN "Account not found"
  ELSE NULL

\* The checks of the callback of setAccountAndGet on the signer's own account.
DirectError(body, err, found) ==
  IF err # NULL THEN err
  ELSE IF NotFound(found) THEN "Account not found"
  ELSE IF The(found).secondSignature /\ ~Truthy(body.secondSecret)
    THEN "Invalid second passphrase"
  ELSE NULL

\* SecondKeypair derived whenever the request carries a second secret.
SecondKeypairFromSecret(acct, body) ==
  IF body.secondSecret # NULL /\ body.secondSecret # ""
    THEN MakeKeypair(body.secondSecret)
    ELSE NoKeypair

\* var secondKeypair = null; if (x.secondSignature) { secondKeypair = makeKeypair(...) }
SecondKeypair(acct, body) ==
  IF acct.secondSignature THEN MakeKeypair(body.secondSecret) ELSE NoKeypair

\* DelegatedData that takes the requester's account as the sender.
DelegatedDataSenderRequester(body, keypair, account, requester) ==
  [type |-> "VOTE", votes |-> body.delegates, sender |-> The(requester),
   keypair |-> keypair, secondKeypair |-> SecondKeypair(The(requester), body),
   requester |-> keypair]

\* The data handed to library.logic.transaction.create on the multisignature branch.
DelegatedData(body, keypair, account, requester) ==
  [type |-> "VOTE", votes |-> body.delegates, sender |-> The(account),
   keypair |-> keypair, secondKeypair |-> SecondKeypair(The(requester), body),
   requester |-> keypair]

\* DirectData that fills in the requester as the multisignature branch does.
DirectDataWithRequester(body, keypair, account) ==
  [type |-> "VOTE", votes |-> body.delegates, sender |-> The(account),
   keypair |-> keypair, secondKeypair |-> SecondKeypair(The(account), body),
   requester |-> keypair]

\* The data handed to library.logic.transaction.create on the direct branch.
DirectData(body, keypair, account) ==
  [type |-> "VOTE", votes |-> body.delegates, sender |-> The(account),
   keypair |-> keypair, secondKeypair |-> SecondKeypair(The(account), body),
   requester |-> NoKeypair]

\* Accounts.prototype.setAccountAndGet up to the call of library.logic.account.set:
\* the error it calls back with, or NULL, and the address it computed.
SetAddress(data) ==
  LET address == IF Truthy(data.address) THEN data.address
                 ELSE IF Truthy(data.publicKey)
                   THEN generateAddressByPublicKey(data.publicKey)
                   ELSE NULL
  IN  IF ~Truthy(data.address) /\ ~Truthy(data.publicKey)
        THEN [err |-> "Missing address or public key", address |-> NULL]
      ELSE IF ~Truthy(address)
        THEN [err |-> "Invalid public key", address |-> NULL]
      ELSE [err |-> NULL, address |-> address]

\* The data the direct branch hands to setAccountAndGet.
SignerData(keypair) == [address |-> NULL, publicKey |-> ToHex(keypair.publicKey)]

\* WorkerCalledBack for a worker that calls cb as soon as it has started its
\* first account-store call.
WorkerCalledBackAtStart(next) == next \in {"done", "getTarget", "set"}

\* WorkerCalledBack for a worker that calls cb when it hands the transaction to
\* the pool, not in the pool's callback.
WorkerCalledBackAtDispatch(next) == next \in {"done", "pool"}

\* WorkerCalledBack for a worker that calls cb once its first account-store call
\* has answered.
WorkerCalledBackAfterFirstAnswer(next) == next \in {"done", "getRequester", "get"}

\* WorkerCalledBack for a worker that never calls cb.
WorkerCalledBackNever(next) == FALSE

\* The points at which the worker handed to library.balancesSequence.add has
\* called its cb: only when the request is finished (an error return, or the
\* callback of receiveTransactions).
WorkerCalledBack(next) == next = "done"

\* The completion callback given to library.balancesSequence.add: the response
\* the caller of addDelegates receives.
Response(err, transactions) ==
  IF err # NULL THEN [err |-> err, transaction |-> NoTx]
  ELSE [err |-> NULL, transaction |-> transactions[1]]

\* The routes router.map binds to the shared handlers.
Routes ==
  {"addDelegates", "getBalance", "getPublickey", "getDelegates", "getDelegatesFee",
   "getAccount"}

\* The gate that lets every request through, bound or not.
GateOpen(bound) == TRUE

\* router.use: if (modules) return next();
GatePasses(bound) == bound

\* The errors of the external collaborators.
StoreGetError == "Account#get error"

StoreSetError == "Account#set error"

PoolError == "Transaction rejected"

NoEnv == [first |-> NULL, second |-> NULL, pool |-> NULL]

\* ------------------------------------------------------------- state

VARIABLES
  workload,     \* which requests and stores the behaviour draws from
  modules,      \* the module-level `modules`: set by onBind
  store,        \* the records of library.logic.account
  req,          \* req.body of each request
  pc,           \* where each request is in addDelegates
  sequence,     \* library.balancesSequence: the queued work items
  running,      \* the work item the sequencer is running (0: none)
  account,      \* the callback argument `account` of each request
  requester,    \* the callback argument `requester` of each request
  transaction,  \* the local `transaction` of each request
  response,     \* what the caller of each request received
  storeCalls,   \* per request: calls made to the account store
  dispatched,   \* per request: calls of modules.transactions.receiveTransactions
  admitted,     \* the requests in the order library.balancesSequence.add took them
  env,          \* per request: the errors the store and the pool answered with
  store0,       \* the account store of the initial state
  route,        \* per request: the route of /api/accounts it asked for
  handler,      \* per request: the shared handler the router invoked
  created,      \* per request: the data handed to library.logic.transaction.create
  filters,      \* per request: the filters handed to library.logic.account.get
  completions,  \* per request: calls of the cb of its sequencer work item
  status        \* per request: the HTTP status this module set on the response

vars ==
  <<workload, modules, store, req, pc, sequence, running, account, requester,
    transaction, response, storeCalls, dispatched, admitted, env, store0,
    route, handler, created, filters, completions, status>>

NoResponse == [err |-> NULL, transaction |-> NoTx]

\* The state after the constructor: the API is attached, onBind has not run.
InitWith(w, stores) ==
  /\ workload = w
  /\ modules = FALSE
  /\ store \in stores
  /\ store0 = store
  /\ req = [r \in Requests |-> NoBody]
  /\ pc = [r \in Requests |-> "idle"]
  /\ sequence = <<>>
  /\ running = 0
  /\ account = [r \in Requests |-> NoAccount]
  /\ requester = [r \in Requests |-> NoAccount]
  /\ transaction = [r \in Requests |-> NoTx]
  /\ response = [r \in Requests |-> NoResponse]
  /\ storeCalls = [r \in Requests |-> 0]
  /\ dispatched = [r \in Requests |-> 0]
  /\ admitted = <<>>
  /\ env = [r \in Requests |-> NoEnv]
  /\ route = [r \in Requests |-> "none"]
  /\ handler = [r \in Requests |-> "none"]
  /\ created = [r \in Requests |-> NoTx]
  /\ filters = [r \in Requests |-> <<>>]
  /\ completions = [r \in Requests |-> 0]
  /\ status = [r \in Requests |-> 0]

\* One request against every store and every request body.
Init == InitWith("single", Stores)

\* Concurrent requests.
InitConcurrent == InitWith("concurrent", SmallStores)

\* Concurrent requests against the store that holds both accounts.
InitLive ==
  InitWith("live", {{Account("addr1", "a1", FALSE, JsNull),
                     Account("addr2", "a2", FALSE, JsArray(<<"a1">>))}})

WorkloadBodies == IF workload = "single" THEN Bodies ELSE SmallBodies

WorkloadRequests == IF workload = "single" THEN {1} ELSE Requests

\* The routes a behaviour asks for: the concurrent workload submits votes and
\* balance queries.
WorkloadRoutes == IF workload = "single" THEN Routes ELSE {"addDelegates", "getBalance"}

\* library.balancesSequence: a FIFO queue that starts the first queued work item
\* only when no work item is running.
SequenceReady(queue, current) == current = 0 /\ queue # <<>>

\* library.schema.validate calls its callbacks in the order of its calls.
ValidateReady(r) == \A q \in Requests : q < r => pc[q] # "validate"

\* The keypair a request derives from its secret.
Keypair(r) == MakeKeypair(req[r].secret)

\* The worker's cb(err, res), and through it the sequencer's completion callback,
\* when the request moves to `next`.
Advance(r, next, err, transactions) ==
  /\ pc' = [pc EXCEPT ![r] = next]
  /\ running' = IF WorkerCalledBack(next) THEN 0 ELSE running
  /\ completions' = IF WorkerCalledBack(next)
                      THEN [completions EXCEPT ![r] = @ + 1]
                      ELSE completions
  /\ response' = IF next = "done"
                   THEN [response EXCEPT ![r] = Response(err, transactions)]
                   ELSE response

\* ------------------------------------------------------------- actions

\* Accounts.prototype.onBind
OnBind ==
  /\ ~modules
  /\ modules' = TRUE
  /\ UNCHANGED <<workload, store, req, pc, sequence, running, account, requester,
                 transaction, response, storeCalls, dispatched, admitted, env, store0,
                 route, handler, created, filters, completions, status>>

\* A request for a route of /api/accounts reaches the router: the gate answers
\* 500 'Blockchain is loading' until onBind has run, and hands the request to the
\* shared handler of its route afterwards; shared.addDelegates starts the schema
\* validation of the body.
Arrive(r) ==
  /\ r \in WorkloadRequests
  /\ pc[r] = "idle"
  /\ \A q \in Requests : q < r => pc[q] # "idle"
  /\ \E rt \in WorkloadRoutes :
       /\ route' = [route EXCEPT ![r] = rt]
       /\ IF GatePasses(modules)
            THEN /\ handler' = [handler EXCEPT ![r] = rt]
                 /\ IF rt = "addDelegates"
                      THEN \E body \in WorkloadBodies :
                             /\ req' = [req EXCEPT ![r] = body]
                             /\ pc' = [pc EXCEPT ![r] = "validate"]
                      ELSE /\ pc' = [pc EXCEPT ![r] = "shared"]
                           /\ UNCHANGED req
                 /\ UNCHANGED <<response, status>>
            ELSE /\ pc' = [pc EXCEPT ![r] = "done"]
                 /\ status' = [status EXCEPT ![r] = 500]
                 /\ response' = [response EXCEPT ![r] =
                                   [err |-> "Blockchain is loading", transaction |-> NoTx]]
                 /\ UNCHANGED <<req, handler>>
  /\ UNCHANGED <<workload, modules, store, sequence, running, account, requester,
                 transaction, storeCalls, dispatched, admitted, env, store0,
                 created, filters, completions>>

\* The answer of a read-only shared handler (getBalance, getPublickey,
\* getDelegates, getDelegatesFee, getAccount): getDelegatesFee answers from a
\* constant, the others after a lookup in the account store.
SharedCallback(r) ==
  /\ pc[r] = "shared"
  /\ pc' = [pc EXCEPT ![r] = "done"]
  /\ storeCalls' = IF route[r] = "getDelegatesFee"
                     THEN storeCalls
                     ELSE [storeCalls EXCEPT ![r] = @ + 1]
  /\ \E err \in IF route[r] = "getDelegatesFee" THEN {NULL} ELSE {NULL, StoreGetError} :
       response' = [response EXCEPT ![r] = [err |-> err, transaction |-> NoTx]]
  /\ UNCHANGED <<workload, modules, store, req, sequence, running, account, requester,
                 transaction, dispatched, admitted, env, store0,
                 route, handler, created, filters, completions, status>>

\* The callback of library.schema.validate: the schema error, the check of the
\* supplied public key, and library.balancesSequence.add.
ValidateCallback(r) ==
  /\ pc[r] = "validate"
  /\ ValidateReady(r)
  /\ LET err == SchemaValidate(req[r])
     IN  IF err # NULL
           THEN /\ pc' = [pc EXCEPT ![r] = "done"]
                /\ response' = [response EXCEPT ![r] = [err |-> err, transaction |-> NoTx]]
                /\ UNCHANGED <<sequence, admitted>>
         ELSE IF PublicKeyMismatch(req[r], Keypair(r))
           THEN /\ pc' = [pc EXCEPT ![r] = "done"]
                /\ response' = [response EXCEPT ![r] =
                                  [err |-> "Invalid passphrase", transaction |-> NoTx]]
                /\ UNCHANGED <<sequence, admitted>>
         ELSE /\ pc' = [pc EXCEPT ![r] = "queued"]
              /\ sequence' = Append(sequence, r)
              /\ admitted' = Append(admitted, r)
              /\ UNCHANGED response
  /\ UNCHANGED <<workload, modules, store, req, running, account, requester,
                 transaction, storeCalls, dispatched, env, store0,
                 route, handler, created, filters, completions, status>>

\* The sequencer takes the first queued work item when none is running and calls
\* the worker, which starts the lookup of the multisignature account or
\* setAccountAndGet on the signer's account.
SequenceTick ==
  /\ SequenceReady(sequence, running)
  /\ LET r == Head(sequence)
         set == SetAddress(SignerData(Keypair(r)))
     IN  /\ sequence' = Tail(sequence)
         /\ storeCalls' = [storeCalls EXCEPT ![r] = @ + 1]
         /\ IF IsDelegated(req[r], Keypair(r))
              THEN /\ pc' = [pc EXCEPT ![r] = "getTarget"]
                   /\ running' = IF WorkerCalledBack("getTarget") THEN 0 ELSE r
                   /\ completions' = IF WorkerCalledBack("getTarget")
                                       THEN [completions EXCEPT ![r] = @ + 1]
                                       ELSE completions
                   /\ filters' = [filters EXCEPT ![r] = Append(@,
                                    getAccountFilter(Filter(NULL,
                                      req[r].multisigAccountPublicKey)))]
                   /\ UNCHANGED response
            ELSE IF set.err # NULL
              THEN /\ pc' = [pc EXCEPT ![r] = "done"]
                   /\ running' = 0
                   /\ completions' = [completions EXCEPT ![r] = @ + 1]
                   /\ response' = [response EXCEPT ![r] = Response(set.err, <<NoTx>>)]
                   /\ UNCHANGED filters
            ELSE /\ pc' = [pc EXCEPT ![r] = "set"]
                 /\ running' = IF WorkerCalledBack("set") THEN 0 ELSE r
                 /\ completions' = IF WorkerCalledBack("set")
                                     THEN [completions EXCEPT ![r] = @ + 1]
                                     ELSE completions
                 /\ UNCHANGED <<response, filters>>
  /\ UNCHANGED <<workload, modules, store, req, account, requester, transaction,
                 dispatched, admitted, env, store0, route, handler, created, status>>

\* The callback of modules.accounts.getAccount({publicKey: multisigAccountPublicKey}).
GetTargetCallback(r) ==
  /\ pc[r] = "getTarget"
  /\ \E storeErr \in {NULL, StoreGetError} :
       LET found == IF storeErr = NULL
                      THEN getAccount(store, Filter(NULL, req[r].multisigAccountPublicKey))
                      ELSE NoAccount
           err == TargetError(Keypair(r), storeErr, found)
       IN  /\ account' = [account EXCEPT ![r] = found]
           /\ env' = [env EXCEPT ![r].first = storeErr]
           /\ IF err # NULL
                THEN /\ Advance(r, "done", err, <<NoTx>>)
                     /\ UNCHANGED <<storeCalls, filters>>
                ELSE /\ Advance(r, "getRequester", NULL, <<NoTx>>)
                     /\ storeCalls' = [storeCalls EXCEPT ![r] = @ + 1]
                     /\ filters' = [filters EXCEPT ![r] = Append(@,
                                      getAccountFilter(Filter(NULL, Keypair(r).publicKey)))]
  /\ UNCHANGED <<workload, modules, store, req, sequence, requester, transaction,
                 dispatched, admitted, store0, route, handler, created, status>>

\* The callback of modules.accounts.getAccount({publicKey: keypair.publicKey}):
\* the requester's checks, the build and the dispatch to the pool.
GetRequesterCallback(r) ==
  /\ pc[r] = "getRequester"
  /\ \E storeErr \in {NULL, StoreGetError} :
       LET found == IF storeErr = NULL
                      THEN getAccount(store, Filter(NULL, Keypair(r).publicKey))
                      ELSE NoAccount
           err == RequesterError(req[r], storeErr, found, account[r])
           data == DelegatedData(req[r], Keypair(r), account[r], found)
       IN  /\ requester' = [requester EXCEPT ![r] = found]
           /\ env' = [env EXCEPT ![r].second = storeErr]
           /\ IF err # NULL
                THEN /\ Advance(r, "done", err, <<NoTx>>)
                     /\ UNCHANGED <<transaction, dispatched, created>>
              ELSE IF CreateThrows(data)
                THEN /\ created' = [created EXCEPT ![r] = data]
                     /\ Advance(r, "done", CreateError, <<NoTx>>)
                     /\ UNCHANGED <<transaction, dispatched>>
              ELSE /\ created' = [created EXCEPT ![r] = data]
                   /\ transaction' = [transaction EXCEPT ![r] = Create(data)]
                   /\ dispatched' = [dispatched EXCEPT ![r] = @ + 1]
                   /\ Advance(r, "pool", NULL, <<NoTx>>)
  /\ UNCHANGED <<workload, modules, store, req, sequence, account, storeCalls,
                 admitted, store0, route, handler, filters, status>>

\* The callback of library.logic.account.set inside setAccountAndGet: the record
\* is written, and library.logic.account.get({address}) is called.
SetCallback(r) ==
  /\ pc[r] = "set"
  /\ \E storeErr \in {NULL, StoreSetError} :
       /\ env' = [env EXCEPT ![r].first = storeErr]
       /\ IF storeErr # NULL
            THEN /\ Advance(r, "done", storeErr, <<NoTx>>)
                 /\ UNCHANGED <<store, storeCalls, filters>>
            ELSE /\ store' = AccountSet(store, SetAddress(SignerData(Keypair(r))).address,
                                        SignerData(Keypair(r)))
                 /\ storeCalls' = [storeCalls EXCEPT ![r] = @ + 1]
                 /\ filters' = [filters EXCEPT ![r] = Append(@,
                                  Filter(SetAddress(SignerData(Keypair(r))).address, NULL))]
                 /\ Advance(r, "get", NULL, <<NoTx>>)
  /\ UNCHANGED <<workload, modules, req, sequence, account, requester, transaction,
                 dispatched, admitted, store0, route, handler, created, status>>

\* The callback of setAccountAndGet: the signer's checks, the build and the
\* dispatch to the pool.
GetCallback(r) ==
  /\ pc[r] = "get"
  /\ \E storeErr \in {NULL, StoreGetError} :
       LET found == IF storeErr = NULL
                      THEN AccountGet(store, SetAddress(SignerData(Keypair(r))).address)
                      ELSE NoAccount
           err == DirectError(req[r], storeErr, found)
           data == DirectData(req[r], Keypair(r), found)
       IN  /\ account' = [account EXCEPT ![r] = found]
           /\ env' = [env EXCEPT ![r].second = storeErr]
           /\ IF err # NULL
                THEN /\ Advance(r, "done", err, <<NoTx>>)
                     /\ UNCHANGED <<transaction, dispatched, created>>
              ELSE IF CreateThrows(data)
                THEN /\ created' = [created EXCEPT ![r] = data]
                     /\ Advance(r, "done", CreateError, <<NoTx>>)
                     /\ UNCHANGED <<transaction, dispatched>>
              ELSE /\ created' = [created EXCEPT ![r] = data]
                   /\ transaction' = [transaction EXCEPT ![r] = Create(data)]
                   /\ dispatched' = [dispatched EXCEPT ![r] = @ + 1]
                   /\ Advance(r, "pool", NULL, <<NoTx>>)
  /\ UNCHANGED <<workload, modules, store, req, sequence, requester, storeCalls,
                 admitted, store0, route, handler, filters, status>>

\* The callback of modules.transactions.receiveTransactions([transaction], cb):
\* the pool's error or the transactions it was given.
ReceiveCallback(r) ==
  /\ pc[r] = "pool"
  /\ \E poolErr \in {NULL, PoolError} :
       /\ env' = [env EXCEPT ![r].pool = poolErr]
       /\ Advance(r, "done", poolErr, <<transaction[r]>>)
  /\ UNCHANGED <<workload, modules, store, req, sequence, account, requester,
                 transaction, storeCalls, dispatched, admitted, store0,
                 route, handler, created, filters, status>>

Next ==
  \/ OnBind
  \/ \E r \in Requests : Arrive(r)
  \/ \E r \in Requests : SharedCallback(r)
  \/ \E r \in Requests : ValidateCallback(r)
  \/ SequenceTick
  \/ \E r \in Requests : GetTargetCallback(r)
  \/ \E r \in Requests : GetRequesterCallback(r)
  \/ \E r \in Requests : SetCallback(r)
  \/ \E r \in Requests : GetCallback(r)
  \/ \E r \in Requests : ReceiveCallback(r)

Spec == Init /\ [][Next]_vars

SpecConcurrent == InitConcurrent /\ [][Next]_vars

\* A step in which the validator, the account store, the pool or the sequencer
\* calls back.
Callback ==
  \/ SequenceTick
  \/ \E r \in Requests :
       \/ SharedCallback(r)
       \/ ValidateCallback(r)
       \/ GetTargetCallback(r)
       \/ GetRequesterCallback(r)
       \/ SetCallback(r)
       \/ GetCallback(r)
       \/ ReceiveCallback(r)

\* The collaborators call back: as long as a call of the validator, the store,
\* the pool or the sequencer is outstanding, one of them is answered.
Fairness == WF_vars(Callback)

SpecLive == InitLive /\ [][Next]_vars /\ Fairness

\* ------------------------------------------------------------- properties

Done(r) == pc[r] = "done"

\* The request was handled by shared.addDelegates and passed the schema.
Handled(r) == req[r] # NoBody /\ SchemaValidate(req[r]) = NULL

SignerHex(r) == ToHex(MakeKeypair(req[r].secret).publicKey)

InSequence(r) == \E i \in 1..Len(admitted) : admitted[i] = r

\* The request names a multisignature account other than the signer's key.
Delegated(r) ==
  /\ Handled(r)
  /\ req[r].multisigAccountPublicKey \notin {NULL, "", SignerHex(r)}

Direct(r) == Handled(r) /\ ~Delegated(r)

\* The errors of the authorization checks and of the build.
AuthorizationErrors ==
  {"Multisignature account not found", "Account does not have multisignatures enabled",
   "Account does not belong to multisignature group", "Requester not found",
   "Missing requester second passphrase", "Invalid requester public key",
   "Account not found", "Invalid second passphrase"}

AuthorizationOrBuildErrors == AuthorizationErrors \cup {CreateError, "Invalid passphrase"}



\* C1: a request whose supplied publicKey differs from the hex public key derived
\* from its secret is answered 'Invalid passphrase', and no account-store call, no
\* admission to the sequencer and no dispatch to the pool is ever made for it.
C1_InvalidCredentialBeforeResolution ==
  \A r \in Requests :
    (Handled(r) /\ req[r].publicKey \notin {NULL, ""} /\ req[r].publicKey # SignerHex(r))
      => /\ pc[r] \in {"validate", "done"}
         /\ storeCalls[r] = 0
         /\ dispatched[r] = 0
         /\ ~InSequence(r)
         /\ transaction[r] = NoTx
         /\ Done(r) => response[r] = [err |-> "Invalid passphrase", transaction |-> NoTx]

C1_Witness ==
  \E r \in Requests :
    /\ Done(r) /\ Handled(r)
    /\ req[r].publicKey = "A1" /\ SignerHex(r) = "a1"
    /\ response[r].err = "Invalid passphrase"

\* Every authorization check of the path the request took has passed, judged on
\* the accounts the store answered with.
Authorized(r) ==
  IF Delegated(r)
    THEN /\ account[r] # {} /\ requester[r] # {}
         /\ \A a \in account[r], q \in requester[r] :
              /\ a.publicKey # NULL /\ q.publicKey # NULL
              /\ a.multisignatures.type = "array"
              /\ \E i \in 1..Len(a.multisignatures.items) :
                   a.multisignatures.items[i] = SignerHex(r)
              /\ q.secondSignature => req[r].secondSecret \notin {NULL, ""}
              /\ q.publicKey # a.publicKey
    ELSE /\ account[r] # {}
         /\ \A a \in account[r] :
              /\ a.publicKey # NULL
              /\ a.secondSignature => req[r].secondSecret \notin {NULL, ""}

\* C2: the pool is called at most once per request, only after every
\* authorization check of the chosen path has passed and create has returned a
\* transaction; a request that ends in an authorization or build error has
\* dispatched nothing.
C2_DispatchOnceAfterAuthorization ==
  \A r \in Requests :
    /\ dispatched[r] <= 1
    /\ dispatched[r] = 1 =>
         /\ Authorized(r)
         /\ req[r].delegates # "malformed"
         /\ transaction[r] # NoTx /\ transaction[r].type = "VOTE"
    /\ (Done(r) /\ response[r].err \in AuthorizationOrBuildErrors) => dispatched[r] = 0
    /\ (Done(r) /\ response[r].transaction # NoTx) =>
         dispatched[r] = 1 /\ response[r].transaction = transaction[r]

C2_Witness ==
  \E r \in Requests :
    /\ Done(r) /\ dispatched[r] = 1 /\ response[r].err = NULL
    /\ Delegated(r) /\ response[r].transaction.type = "VOTE"

\* One request run alone and to completion against store st, the store and the
\* pool answering with the errors e: the response and the store it leaves.
RunRequest(st, body, e) ==
  LET keypair == MakeKeypair(body.secret)
      signer == generateAddressByPublicKey(ToHex(keypair.publicKey))
  IN  IF IsDelegated(body, keypair)
        THEN LET target == IF e.first = NULL
                             THEN AccountGet(st, generateAddressByPublicKey(
                                                   body.multisigAccountPublicKey))
                             ELSE NoAccount
                 targetErr == TargetError(keypair, e.first, target)
                 member == IF e.second = NULL THEN AccountGet(st, signer) ELSE NoAccount
                 memberErr == RequesterError(body, e.second, member, target)
                 data == DelegatedData(body, keypair, target, member)
             IN  [store |-> st,
                  response |->
                    IF targetErr # NULL THEN Response(targetErr, <<NoTx>>)
                    ELSE IF memberErr # NULL THEN Response(memberErr, <<NoTx>>)
                    ELSE IF CreateThrows(data) THEN Response(CreateError, <<NoTx>>)
                    ELSE Response(e.pool, <<Create(data)>>)]
        ELSE LET written == IF e.first = NULL
                              THEN AccountSet(st, signer, SignerData(keypair))
                              ELSE st
                 own == IF e.second = NULL THEN AccountGet(written, signer) ELSE NoAccount
                 ownErr == DirectError(body, e.second, own)
                 data == DirectData(body, keypair, own)
             IN  [store |-> written,
                  response |->
                    IF e.first # NULL THEN Response(e.first, <<NoTx>>)
                    ELSE IF ownErr # NULL THEN Response(ownErr, <<NoTx>>)
                    ELSE IF CreateThrows(data) THEN Response(CreateError, <<NoTx>>)
                    ELSE Response(e.pool, <<Create(data)>>)]

\* The store after the requests of ids have run one after the other, each to
\* completion, from the initial store.
RECURSIVE StoreAfter(_)
StoreAfter(ids) ==
  IF ids = <<>> THEN store0
  ELSE RunRequest(StoreAfter(SubSeq(ids, 1, Len(ids) - 1)),
                  req[ids[Len(ids)]], env[ids[Len(ids)]]).store

\* The response of the k-th request of ids in that sequential run.
SequentialResponse(ids, k) ==
  RunRequest(StoreAfter(SubSeq(ids, 1, k - 1)), req[ids[k]], env[ids[k]]).response

AllDone(ids) == \A i \in 1..Len(ids) : Done(ids[i])

\* C3: the outcomes of submissions issued concurrently through the sequencer are
\* those of running them one after the other, each to completion, in the order
\* of their admission, from the same initial account store.
C3_ConcurrentEqualsSequential ==
  \A k \in 1..Len(admitted) :
    AllDone(SubSeq(admitted, 1, k)) =>
      response[admitted[k]] = SequentialResponse(admitted, k)

\* Two admitted submissions are resolved, and the outcome of the second is not the
\* one it would have had alone: it saw what the first wrote.
C3_Witness ==
  /\ Len(admitted) = 2 /\ AllDone(admitted)
  /\ response[admitted[2]] = SequentialResponse(admitted, 2)
  /\ response[admitted[2]] # RunRequest(store0, req[admitted[2]], env[admitted[2]]).response

\* The critical section of a request: from its first account-store call to the
\* completion callback of its work item, the dispatch to the pool included.
InCriticalSection(r) == pc[r] \in {"getTarget", "getRequester", "set", "get", "pool"}

\* C4: at most one request is inside its critical section, and it is the work
\* item the sequencer is running.
C4_OneCriticalSection ==
  \A r, q \in Requests :
    InCriticalSection(r) =>
      /\ running = r
      /\ InCriticalSection(q) => q = r

C4_Witness ==
  \E r, q \in Requests :
    /\ r # q
    /\ pc[r] = "pool"
    /\ pc[q] = "queued"

NoSecondSecret(r) == req[r].secondSecret \in {NULL, ""}

\* C5: on the direct path, when the signer's account has secondSignature set and
\* the request carries no secondSecret, the request is rejected with the
\* missing-second-factor error whatever the vote list, and no transaction is
\* created or dispatched.
C5_DirectMissingSecondFactor ==
  \A r \in Requests :
    (/\ Done(r) /\ Direct(r)
     /\ account[r] # {}
     /\ \A a \in account[r] : a.secondSignature
     /\ NoSecondSecret(r))
      => /\ response[r] = [err |-> "Invalid second passphrase", transaction |-> NoTx]
         /\ transaction[r] = NoTx
         /\ dispatched[r] = 0

C5_Witness ==
  \E r \in Requests :
    /\ Done(r) /\ Direct(r) /\ NoSecondSecret(r)
    /\ req[r].multisigAccountPublicKey = SignerHex(r)
    /\ req[r].delegates = "malformed"
    /\ \E a \in account[r] : a.secondSignature
    /\ response[r].err = "Invalid second passphrase"

\* The target account was found, with a public key.
TargetFound(r) == account[r] # {} /\ \A a \in account[r] : a.publicKey # NULL

\* The multisignatures of the target account, as a set of keys (none when unset).
TargetKeys(r) ==
  UNION {IF a.multisignatures.type = "array"
           THEN {a.multisignatures.items[i] : i \in 1..Len(a.multisignatures.items)}
           ELSE {} : a \in account[r]}

\* C6: on the delegated path, when the target account's multisignatures (a
\* multisignature account: the list is not empty) does not contain the signer's
\* derived public key, the request ends with the unauthorized-signer error
\* whatever the requester account is, the requester is not looked up, and no
\* transaction is created or dispatched.
C6_DelegatedUnauthorizedSigner ==
  \A r \in Requests :
    (/\ Done(r) /\ Delegated(r) /\ TargetFound(r)
     /\ TargetKeys(r) # {}
     /\ SignerHex(r) \notin TargetKeys(r))
      => /\ response[r] = [err |-> "Account does not belong to multisignature group",
                           transaction |-> NoTx]
         /\ storeCalls[r] = 1
         /\ requester[r] = NoAccount
         /\ transaction[r] = NoTx
         /\ dispatched[r] = 0

\* The signer is not in the target's list although the signer's own account
\* exists and is well-formed.
C6_Witness ==
  \E r \in Requests :
    /\ Done(r) /\ Delegated(r) /\ TargetFound(r)
    /\ TargetKeys(r) # {} /\ SignerHex(r) \notin TargetKeys(r)
    /\ \E q \in AccountGet(store, generateAddressByPublicKey(SignerHex(r))) :
         q.publicKey = SignerHex(r) /\ ~q.secondSignature
    /\ response[r].err = "Account does not belong to multisignature group"

\* The requester account and the target account were both resolved, with the
\* same public key.
RequesterIsTarget(r) ==
  /\ Done(r) /\ Delegated(r) /\ TargetFound(r)
  /\ requester[r] # {}
  /\ \A a \in account[r], q \in requester[r] : q.publicKey = a.publicKey

\* C7 as stated: on the delegated path, a resolved requester whose public key
\* equals the resolved target's always ends with the invalid-requester error,
\* whatever the requester's second-signature flag and secondSecret.
C7_Claim ==
  \A r \in Requests :
    RequesterIsTarget(r) =>
      response[r] = [err |-> "Invalid requester public key", transaction |-> NoTx]

\* C7 as amended: the same, unless the requester has secondSignature set and the
\* request carries no secondSecret; then the error is the missing requester
\* second passphrase. In both cases no transaction is created or dispatched.
C7_InvalidRequesterAfterSecondFactor ==
  \A r \in Requests :
    RequesterIsTarget(r) =>
      /\ response[r].transaction = NoTx
      /\ response[r].err =
           IF NoSecondSecret(r) /\ \A q \in requester[r] : q.secondSignature
             THEN "Missing requester second passphrase"
             ELSE "Invalid requester public key"
      /\ transaction[r] = NoTx
      /\ dispatched[r] = 0

C7_Witness ==
  \E r \in Requests :
    /\ RequesterIsTarget(r)
    /\ \E q \in requester[r] : q.secondSignature
    /\ ~NoSecondSecret(r)
    /\ response[r].err = "Invalid requester public key"

\* C8: on the delegated path, a target account that exists and whose
\* multisignatures is empty (an empty list as well as an absent one) is rejected
\* with the not-a-multisignature-account error.
C8_Claim ==
  \A r \in Requests :
    (Done(r) /\ Delegated(r) /\ TargetFound(r) /\ TargetKeys(r) = {})
      => response[r] = [err |-> "Account does not have multisignatures enabled",
                        transaction |-> NoTx]

\* C9: resolving the accounts of a request leaves the account store as it was.
C9_Claim == store = store0

\* ids without its i-th entry.
Without(ids, i) == SubSeq(ids, 1, i - 1) \o SubSeq(ids, i + 1, Len(ids))

\* C10: when a queued request F fails authorization or fails to build, every
\* request queued after F has the outcome it would have had if F had never been
\* submitted.
C10_Claim ==
  AllDone(admitted) =>
    \A i \in 1..Len(admitted) :
      response[admitted[i]].err \in AuthorizationOrBuildErrors =>
        \A k \in i..(Len(admitted) - 1) :
          response[Without(admitted, i)[k]] = SequentialResponse(Without(admitted, i), k)

\* The signer's own account answered the lookup of the direct path.
SignerAccountFound(r) ==
  Direct(r) /\ pc[r] \in {"pool", "done"} /\ env[r].first = NULL /\ env[r].second = NULL
            /\ ~NotFound(account[r])

\* C11: on the direct path, when the signer's account exists and has no second
\* signature, the data handed to the builder has type VOTE, the signer's own
\* account as sender, the signer's keypair as signing keypair, a null second
\* keypair and no requester; the transaction built from it is the one handed to
\* the pool, once, and the one returned to the caller when the pool accepts it.
C11_DirectSuccessTransaction ==
  \A r \in Requests :
    (SignerAccountFound(r) /\ ~The(account[r]).secondSignature)
      => /\ created[r] # NoTx
         /\ created[r].type = "VOTE"
         /\ created[r].sender = The(account[r])
         /\ created[r].sender.address = generateAddressByPublicKey(SignerHex(r))
         /\ created[r].sender.publicKey = SignerHex(r)
         /\ created[r].keypair = MakeKeypair(req[r].secret)
         /\ created[r].secondKeypair = NoKeypair
         /\ created[r].requester = NoKeypair
         /\ ~CreateThrows(created[r])
              => /\ transaction[r] = Create(created[r])
                 /\ dispatched[r] = 1
                 /\ (Done(r) /\ env[r].pool = NULL)
                      => response[r] = [err |-> NULL, transaction |-> Create(created[r])]

C11_Witness ==
  \E r \in Requests :
    /\ SignerAccountFound(r) /\ ~The(account[r]).secondSignature
    /\ req[r].secondSecret = "t1"
    /\ Done(r) /\ response[r].err = NULL
    /\ response[r].transaction.type = "VOTE"
    /\ response[r].transaction.requester = NoKeypair

\* The lookups of the delegated path answered the account of the key the request
\* names, which lists the signer, and the signer's own account, another one.
DelegatedAccountsFound(r) ==
  /\ Delegated(r) /\ pc[r] \in {"pool", "done"}
  /\ env[r].first = NULL /\ env[r].second = NULL
  /\ ~NotFound(account[r])
  /\ TruthyArray(The(account[r]).multisignatures)
  /\ ~IndexOfNegative(The(account[r]).multisignatures, SignerHex(r))
  /\ ~NotFound(requester[r])
  /\ The(requester[r]).publicKey # The(account[r]).publicKey

\* C12: on the delegated path, when the account of the key K the request names
\* exists and lists the signer, and the requester's account exists and has no
\* second signature, the data handed to the builder has K's account as sender,
\* the signer's keypair as requester and as signing keypair, and no second
\* keypair.
C12_DelegatedSuccessTransaction ==
  \A r \in Requests :
    (DelegatedAccountsFound(r) /\ ~The(requester[r]).secondSignature)
      => /\ created[r] # NoTx
         /\ created[r].type = "VOTE"
         /\ created[r].sender = The(account[r])
         /\ created[r].sender.address =
              generateAddressByPublicKey(req[r].multisigAccountPublicKey)
         /\ created[r].requester = MakeKeypair(req[r].secret)
         /\ ToHex(created[r].requester.publicKey) # created[r].sender.publicKey
         /\ created[r].keypair = MakeKeypair(req[r].secret)
         /\ created[r].secondKeypair = NoKeypair
         /\ ~CreateThrows(created[r])
              => transaction[r] = Create(created[r]) /\ dispatched[r] = 1

C12_Witness ==
  \E r \in Requests :
    /\ DelegatedAccountsFound(r) /\ ~The(requester[r]).secondSignature
    /\ req[r].secondSecret = "t1"
    /\ Done(r) /\ response[r].err = NULL
    /\ response[r].transaction.sender.address = "addr2"
    /\ response[r].transaction.requester = MakeKeypair("s1")

\* C13: when the builder throws on the data handed to it (on either path), the
\* caller receives an error that carries the message of the exception, the work
\* item of the request has called its cb once and no longer holds the sequencer,
\* and the pool is not called.
C13_BuildFailureIsAnError ==
  \A r \in Requests :
    (created[r] # NoTx /\ CreateThrows(created[r]))
      => /\ Done(r)
         /\ response[r] = [err |-> "Error: Invalid vote list", transaction |-> NoTx]
         /\ completions[r] = 1
         /\ running # r
         /\ transaction[r] = NoTx
         /\ dispatched[r] = 0

C13_Witness ==
  \E r \in Requests :
    /\ created[r] # NoTx /\ CreateThrows(created[r]) /\ Delegated(r)
    /\ created[r].secondKeypair # NoKeypair
    /\ response[r].err = "Error: Invalid vote list"

\* C14: on the direct path, when the store holds no record at the signer's
\* address when the request is processed, the request is rejected with 'Account
\* not found' and no transaction is built or dispatched.
C14_Claim ==
  \A r \in Requests :
    (Direct(r) /\ storeCalls[r] > 0
       /\ AccountGet(store0, generateAddressByPublicKey(SignerHex(r))) = {})
      => /\ created[r] = NoTx
         /\ dispatched[r] = 0
         /\ (Done(r) /\ env[r].first = NULL /\ env[r].second = NULL)
              => response[r] = [err |-> "Account not found", transaction |-> NoTx]

\* C15: getAccount with a filter that carries a public key P makes one lookup in
\* the store, by the address derived from P and with no publicKey left in the
\* filter; its callback receives what getAccount by that address returns, and
\* the store is not written.
C15_GetAccountByPublicKey ==
  \A r \in Requests :
    Delegated(r)
      => /\ Len(filters[r]) = storeCalls[r]
         /\ \A i \in 1..Len(filters[r]) : filters[r][i].publicKey = NULL
         /\ Len(filters[r]) >= 1
              => filters[r][1].address =
                   generateAddressByPublicKey(req[r].multisigAccountPublicKey)
         /\ Len(filters[r]) >= 2
              => filters[r][2].address =
                   generateAddressByPublicKey(MakeKeypair(req[r].secret).publicKey)
         /\ (pc[r] \in {"getRequester", "pool", "done"} /\ storeCalls[r] >= 1
               /\ env[r].first = NULL)
              => account[r] = getAccount(store, Filter(generateAddressByPublicKey(
                                                  req[r].multisigAccountPublicKey), NULL))
         /\ (pc[r] \in {"pool", "done"} /\ storeCalls[r] = 2 /\ env[r].second = NULL)
              => requester[r] = getAccount(store, Filter(generateAddressByPublicKey(
                                                  MakeKeypair(req[r].secret).publicKey), NULL))
         /\ store = store0

C15_Witness ==
  \E r \in Requests :
    /\ Delegated(r) /\ Done(r)
    /\ req[r].multisigAccountPublicKey = "A1"
    /\ filters[r] = <<Filter("addr1", NULL), Filter("addr2", NULL)>>
    /\ account[r] # NoAccount /\ The(account[r]).publicKey = "a1"
    /\ requester[r] # NoAccount

\* The worker of the request has been started by the sequencer.
Started(r) == storeCalls[r] > 0

\* C16: requests (numbered in the order of their arrival at addDelegates) are
\* admitted to the sequencer and start their resolve/authorize/build phase in
\* arrival order, and a request starts it only when every request that arrived
\* earlier is fully resolved, its transaction or error delivered.
C16_StartInArrivalOrder ==
  /\ \A i \in 1..Len(admitted), j \in 1..Len(admitted) :
       i < j => admitted[i] < admitted[j]
  /\ \A r \in Requests, q \in Requests :
       (q < r /\ route[q] = "addDelegates" /\ route[r] = "addDelegates" /\ Started(r))
         => /\ Done(q)
            /\ response[q] # NoResponse

C16_Witness ==
  /\ Started(1) /\ InCriticalSection(1) /\ pc[2] = "queued"
  /\ route[1] = "addDelegates" /\ route[2] = "addDelegates"

\* The account whose second signature governs the request: the signer's account
\* on the direct path, the requester's account on the delegated path.
Governing(r) == IF Delegated(r) THEN The(requester[r]) ELSE The(account[r])

\* C17: whenever data is handed to the builder, its second keypair is the
\* keypair derived from secondSecret if the governing account has secondSignature
\* set, and null if it has not, whether or not the request carries a secondSecret.
C17_SecondKeypairIffSecondSignature ==
  \A r \in Requests :
    created[r] # NoTx
      => /\ Governing(r).secondSignature
              => /\ created[r].secondKeypair = MakeKeypair(req[r].secondSecret)
                 /\ created[r].secondKeypair # NoKeypair
                 /\ req[r].secondSecret \notin {NULL, ""}
         /\ ~Governing(r).secondSignature => created[r].secondKeypair = NoKeypair

C17_Witness ==
  \E r \in Requests :
    /\ created[r] # NoTx /\ Delegated(r)
    /\ ~Governing(r).secondSignature /\ The(account[r]).secondSignature
    /\ req[r].secondSecret = "t1"
    /\ created[r].secondKeypair = NoKeypair

C17_WitnessSet ==
  \E r \in Requests :
    /\ created[r] # NoTx /\ Direct(r)
    /\ Governing(r).secondSignature
    /\ created[r].secondKeypair = MakeKeypair("t1")

\* The checks of the delegated path in the order the claim gives them, each with
\* the condition under which it fails and the error it returns, judged on the
\* account store and on the errors the store answered with.
DelegatedChecks(r) ==
  LET signer == SignerHex(r)
      t == AccountGet(store0, generateAddressByPublicKey(req[r].multisigAccountPublicKey))
      q == AccountGet(store0, generateAddressByPublicKey(signer))
  IN  << <<env[r].first # NULL, StoreGetError>>,
         <<t = {} \/ \E a \in t : a.publicKey = NULL,
           "Multisignature account not found">>,
         <<\E a \in t : a.multisignatures = JsNull,
           "Account does not have multisignatures enabled">>,
         <<\E a \in t : /\ a.multisignatures # JsNull
                        /\ \A i \in 1..Len(a.multisignatures.items) :
                             a.multisignatures.items[i] # signer,
           "Account does not belong to multisignature group">>,
         <<env[r].second # NULL, StoreGetError>>,
         <<q = {} \/ \E a \in q : a.publicKey = NULL, "Requester not found">>,
         <<\E a \in q : a.secondSignature /\ req[r].secondSecret \in {NULL, ""},
           "Missing requester second passphrase">>,
         <<\E a \in q, b \in t : a.publicKey = b.publicKey,
           "Invalid requester public key">> >>

\* The checks that fail.
Failing(checks) == {i \in 1..Len(checks) : checks[i][1]}

\* The first check that fails.
FirstFailing(checks) == CHOOSE i \in Failing(checks) : \A j \in Failing(checks) : i <= j

\* C19: on the delegated path the checks run in the order target found, target
\* has multisignatures, signer listed, requester found, second passphrase
\* present if required, requester's key different from the target's; the first
\* check that fails decides the error, and the requester is only looked up when
\* the target was found, has multisignatures and lists the signer.
C19_DelegatedCheckOrder ==
  \A r \in Requests :
    (Delegated(r) /\ Started(r))
      => LET checks == DelegatedChecks(r)
         IN  /\ (Done(r) /\ Failing(checks) # {})
                  => response[r] = [err |-> checks[FirstFailing(checks)][2],
                                    transaction |-> NoTx]
             /\ (Done(r) /\ Failing(checks) = {})
                  => response[r].err \in {NULL, "Error: Invalid vote list", PoolError}
             /\ storeCalls[r] = 2 => Failing(checks) \cap {1, 2, 3, 4} = {}
             /\ storeCalls[r] <= 2
             /\ Failing(checks) # {} => created[r] = NoTx /\ dispatched[r] = 0

C19_Witness ==
  \E r \in Requests :
    /\ Delegated(r) /\ Started(r) /\ Done(r)
    /\ Failing(DelegatedChecks(r)) = {7, 8}
    /\ response[r].err = "Missing requester second passphrase"

\* C20: until onBind has run, every request for a route of /api/accounts is
\* answered 500 'Blockchain is loading' and no shared handler is invoked, so
\* that nothing is validated, looked up, admitted to the sequencer or
\* dispatched; once onBind has run, the gate hands every arriving request to the
\* shared handler of its route.
C20_GateUntilBound ==
  /\ [](~modules =>
          /\ sequence = <<>> /\ admitted = <<>> /\ running = 0 /\ store = store0
          /\ \A r \in Requests :
               /\ pc[r] \in {"idle", "done"}
               /\ handler[r] = "none"
               /\ req[r] = NoBody
               /\ storeCalls[r] = 0 /\ dispatched[r] = 0 /\ created[r] = NoTx
               /\ Done(r) => /\ status[r] = 500
                             /\ response[r] = [err |-> "Blockchain is loading",
                                               transaction |-> NoTx])
  /\ [][modules =>
          \A r \in Requests :
            (pc[r] = "idle" /\ pc'[r] # "idle")
              => /\ route'[r] \in Routes
                 /\ handler'[r] = route'[r]
                 /\ pc'[r] \in {"validate", "shared"}
                 /\ status'[r] = 0]_vars

C20_Witness ==
  \E r \in Requests, q \in Requests :
    /\ modules
    /\ Done(r) /\ status[r] = 500 /\ handler[r] = "none" /\ route[r] = "getBalance"
    /\ response[r].err = "Blockchain is loading"
    /\ Done(q) /\ handler[q] = "getBalance" /\ status[q] = 0 /\ storeCalls[q] = 1

\* The request has reached addDelegates and has no response yet.
InFlight(r) == pc[r] \notin {"idle", "done"}

====
